---- MODULE Spec2Model ----
(***************************************************************************)
(* State-machine model of src/sftp.rs: the SFTP subsystem handle (Sftp),   *)
(* the file/directory handle (File), the session mutex they share, the     *)
(* blocking-mode toggle of the two destructors and the growth-retry loop   *)
(* of readlink/realpath/readdir.  Each thread of the host program calls    *)
(* operations on the shared Sftp and on a File of its own; every operation *)
(* is split at the points where another thread can run: the wait for the   *)
(* session mutex and the request/response exchange with the peer.          *)
(* Spec is the host program of path operations, transfers and releases;    *)
(* IoSpec the one that reads, writes and seeks on its Files; ListSpec the  *)
(* one that lists directories with Sftp::readdir; CodecSpec applies the    *)
(* conversions FileStat::raw and FileStat::from_raw to every FileStat.     *)
(***************************************************************************)
EXTENDS Integers, Sequences, FiniteSets, TLC

\* ---------------------------------------------------------------- bounds
NumThreads == 2
MaxOps == 3
MaxDoublings == 1
MaxReq == 3
MaxBuf == 2
MaxEntries == 2
MaxSize == 2

\* ------------------------------------------------------ program constants
InitialCapacity == 128
LIBSSH2_ERROR_BUFFER_TOO_SMALL == -38
LIBSSH2_ERROR_FILE == -16
LIBSSH2_ERROR_BAD_USE == -39
LIBSSH2_ERROR_SOCKET_SEND == -7

\* The negative statuses, other than buffer-too-small, a request can end with,
\* and the error the session reports as its last one.
PeerErrors == {LIBSSH2_ERROR_SOCKET_SEND}
LastError == LIBSSH2_ERROR_SOCKET_SEND

Threads == 1..NumThreads
NoThread == 0

\* Payload lengths the peer may hold for a variable-length answer: nothing,
\* or a length that first fits after k doublings of the initial capacity.
Payloads == {0} \cup {InitialCapacity * (2 ^ k) : k \in 0..MaxDoublings}

SftpOps == {"open_mode", "mkdir", "readlink_op", "readdir_all", "shutdown", "drop_sftp"}
FileOps == {"read", "write", "seek", "readdir", "close", "drop_file"}
GrowthOps == {"readlink_op", "readdir"}
DropOps == {"drop_sftp", "drop_file"}

VARIABLES
    th,           \* per thread: position in the running call and its locals
    ret,          \* the call that ended in the latest step, if one did: its logs and result
    opsDone,      \* calls made so far by all threads
    lockHolder,   \* Mutex<SessionInner>: the thread holding it, or NoThread
    lockMode,     \* the blocking mode at the latest acquisition of the mutex
    blocking,     \* SessionInner's blocking mode
    sftp,         \* Sftp.inner: "Some", "None"; "dropped" once the wrapper is gone
    file,         \* per thread, File.inner: "absent" (no File yet), "Some", "None",
                  \* "dropped"
    inflight,     \* threads whose protocol request is in progress on the session
    closeReqs,    \* per thread: close requests issued for its File's raw handle
    closeCalls,   \* per thread: explicit close() calls made on its File
    shutdownCalls, \* explicit shutdown() calls made on the Sftp
    shutdownReqs, \* shutdown requests issued for the Sftp's raw handle
    filepos,      \* per thread: the local file pointer libssh2 keeps for its File
    codec         \* the FileStat conversion under study: value, raw record, result

vars == <<th, ret, opsDone, lockHolder, lockMode, blocking, sftp, file, inflight,
          closeReqs, closeCalls, shutdownCalls, shutdownReqs, filepos, codec>>

NoResult == [tag |-> "None", val |-> 0]
Ok(v) == [tag |-> "Ok", val |-> v]
Err(code) == [tag |-> "Err", val |-> code]
PathErr == [tag |-> "PathErr", val |-> 0]
Panic == [tag |-> "Panic", val |-> 0]

\* Option<T>: None, Some(x).
None == <<>>
Some(x) == <<x>>
is_some(o) == o # None
unwrap_or(o, d) == IF is_some(o) THEN o[1] ELSE d

\* The locals of a call of operation o, as they are when the call starts:
\* need is the length the peer's answer has (the buffer length, for a read or
\* write), hreq counts the requests issued in the current hold of the mutex,
\* phase is the part of a composed call that is running, pending a result
\* computed before the call's last step.
Fresh(o) ==
    [pc |-> "idle", op |-> o, rc |-> 0, cap |-> 0, need |-> 0, nreq |-> 0,
     was_blocking |-> FALSE, stale |-> FALSE, pathOk |-> TRUE, nth |-> 0,
     dsteps |-> <<>>, hreq |-> 0, how |-> "none", offset |-> 0, size |-> None,
     pos0 |-> 0, next |-> 0, nseek |-> 0, phase |-> "none", seen |-> <<>>,
     list |-> <<>>, pending |-> NoResult]

\* What is kept of a call with locals r, made by thread t, that ended with res.
Ended(t, r, res) ==
    [t |-> t, op |-> r.op, need |-> r.need, nreq |-> r.nreq, stale |-> r.stale,
     pathOk |-> r.pathOk, nth |-> r.nth, dsteps |-> r.dsteps, result |-> res,
     rc |-> r.rc, how |-> r.how, offset |-> r.offset, size |-> r.size,
     pos0 |-> r.pos0, next |-> r.next, nseek |-> r.nseek, phase |-> r.phase,
     seen |-> r.seen, list |-> r.list, pending |-> r.pending]

Min(a, b) == IF a < b THEN a ELSE b
Max(a, b) == IF a > b THEN a ELSE b

NoRet == Ended(NoThread, Fresh("none"), NoResult)

\* -------------------------------------------- FileStat and its raw record
\* An integer of up to 64 bits, as its two 32-bit words.
Word2(h, l) == [hi |-> h, lo |-> l]
Zero == Word2(0, 0)

\* The casts of from_raw and raw: as u32 keeps the low word, as u64 extends
\* with zeros, as c_ulong keeps as many words as the target's c_ulong has
\* (two where long has 64 bits, one where it has 32).
AsU32(x) == Word2(0, x.lo)
AsU64(x) == x
AsCULong(x, words) == IF words = 1 THEN Word2(0, x.lo) ELSE x

Fields == {"size", "uid", "gid", "perm", "atime", "mtime"}

\* The values a field is given in the study: 0, 1 and, for a u64 field, 2^32.
U32Values == {Word2(0, 0), Word2(0, 1)}
U64Values == {Word2(0, 0), Word2(0, 1), Word2(1, 0)}

\* pub struct FileStat: six optional fields.
FileStats ==
    [size : {None} \cup {Some(x) : x \in U64Values},
     uid : {None} \cup {Some(x) : x \in U32Values},
     gid : {None} \cup {Some(x) : x \in U32Values},
     perm : {None} \cup {Some(x) : x \in U32Values},
     atime : {None} \cup {Some(x) : x \in U64Values},
     mtime : {None} \cup {Some(x) : x \in U64Values}]

NoStat == [X \in Fields |-> None]

\* A layout in which every field has a flag bit of its own.
FlagOf_separate(X) == X

\* The flag bit of raw.flags that governs a field: LIBSSH2_SFTP_ATTR_*.
FlagOf(X) ==
    CASE X = "size" -> "SIZE"
      [] X \in {"uid", "gid"} -> "UIDGID"
      [] X = "perm" -> "PERMISSIONS"
      [] X \in {"atime", "mtime"} -> "ACMODTIME"

\* The member of raw::LIBSSH2_SFTP_ATTRIBUTES that stores a field.
StorageOf(X) ==
    CASE X = "size" -> "filesize"
      [] X = "perm" -> "permissions"
      [] OTHER -> X

\* mem::zeroed(): the raw record with no flag and every member zero.
zeroed ==
    [flags |-> {}, filesize |-> Zero, uid |-> Zero, gid |-> Zero,
     permissions |-> Zero, atime |-> Zero, mtime |-> Zero]

\* fn flag of FileStat::raw: the flag bit (a set of bits, joined by |) when
\* the field is present.
raw_flag(o, fl) == IF is_some(o) THEN {fl} ELSE {}

\* FileStat::raw on a target whose c_ulong has the given number of words.
FileStat_raw(v, words) ==
    [flags |-> raw_flag(v.size, FlagOf("size"))
               \cup raw_flag(v.uid, FlagOf("uid"))
               \cup raw_flag(v.gid, FlagOf("gid"))
               \cup raw_flag(v.perm, FlagOf("perm"))
               \cup raw_flag(v.atime, FlagOf("atime"))
               \cup raw_flag(v.mtime, FlagOf("mtime")),
     filesize |-> unwrap_or(v.size, Zero),
     uid |-> AsCULong(unwrap_or(v.uid, Zero), words),
     gid |-> AsCULong(unwrap_or(v.gid, Zero), words),
     permissions |-> AsCULong(unwrap_or(v.perm, Zero), words),
     atime |-> AsCULong(unwrap_or(v.atime, Zero), words),
     mtime |-> AsCULong(unwrap_or(v.mtime, Zero), words)]

\* A val that surfaces the member whatever the flags.
from_raw_val_always(raw, t, fl) == Some(t)

\* fn val of FileStat::from_raw: the member when its flag bit is set.
from_raw_val(raw, t, fl) == IF fl \in raw.flags THEN Some(t) ELSE None

\* Option::map with the closures |s| s as u32 and |s| s as u64.
map_as_u32(o) == IF is_some(o) THEN Some(AsU32(o[1])) ELSE None
map_as_u64(o) == IF is_some(o) THEN Some(AsU64(o[1])) ELSE None

\* FileStat::from_raw.
FileStat_from_raw(raw) ==
    [size |-> from_raw_val(raw, raw.filesize, FlagOf("size")),
     uid |-> map_as_u32(from_raw_val(raw, raw.uid, FlagOf("uid"))),
     gid |-> map_as_u32(from_raw_val(raw, raw.gid, FlagOf("gid"))),
     perm |-> map_as_u32(from_raw_val(raw, raw.permissions, FlagOf("perm"))),
     mtime |-> map_as_u64(from_raw_val(raw, raw.mtime, FlagOf("mtime"))),
     atime |-> map_as_u64(from_raw_val(raw, raw.atime, FlagOf("atime")))]

\* The attributes a remote file has before a setstat, each different from
\* every value a FileStat of the study holds.
RemoteBefore == [X \in Fields |-> Word2(1, 1)]

\* What the peer does with the record of a setstat: it sets the attributes
\* whose flag bit is set to the member that stores them.
RemoteAfter(raw) ==
    [X \in Fields |-> IF FlagOf(X) \in raw.flags THEN raw[StorageOf(X)]
                                                ELSE RemoteBefore[X]]

\* No conversion under study.
CodecOff ==
    [stage |-> "off", words |-> 2, v |-> NoStat, raw |-> zeroed, back |-> NoStat,
     remote |-> RemoteBefore]

\* ------------------------------------------------------------------ Init
ProgramInit ==
    /\ th = [t \in Threads |-> Fresh("none")]
    /\ ret = NoRet
    /\ opsDone = 0
    /\ lockHolder = NoThread
    /\ lockMode \in BOOLEAN
    /\ blocking = lockMode
    /\ sftp = "Some"
    /\ file = [t \in Threads |-> "absent"]
    /\ inflight = {}
    /\ closeReqs = [t \in Threads |-> 0]
    /\ closeCalls = [t \in Threads |-> 0]
    /\ shutdownCalls = 0
    /\ shutdownReqs = 0
    /\ filepos = [t \in Threads |-> 0]

Init == ProgramInit /\ codec = CodecOff

\* ------------------------------------------------------------- helpers
\* A step inside a call: the locals change and no call ends.
Set(t, r) == th' = [th EXCEPT ![t] = r] /\ ret' = NoRet

\* A call returns res: its locals are gone, the thread is between calls.
Return(t, r, res) ==
    /\ th' = [th EXCEPT ![t] = Fresh("none")]
    /\ ret' = Ended(t, r, res)

\* A call ends in a panic: the thread unwinds and runs no further call.
Unwind(t, r) ==
    /\ th' = [th EXCEPT ![t] = [Fresh("none") EXCEPT !.pc = "panicked"]]
    /\ ret' = Ended(t, r, Panic)

\* A thread may start a call: it is between calls and the host program has
\* calls left.
CanCall(t) == th[t].pc = "idle" /\ opsDone < MaxOps
Running(u) == th[u].pc \notin {"idle", "panicked"}

\* Borrow rules of the Sftp wrapper: &self calls may overlap each other, a
\* &mut self call (shutdown) or the drop excludes every other call on it.
SftpShared(t) ==
    \A u \in Threads \ {t} : ~(Running(u) /\ th[u].op \in {"shutdown", "drop_sftp"})
SftpExclusive(t) ==
    \A u \in Threads \ {t} : ~(Running(u) /\ th[u].op \in SftpOps)

\* Vec::reserve(additional) on a vector of the given capacity and length:
\* nothing when capacity - len already covers additional, else amortized
\* growth to at least len + additional.
VecReserve(capacity, len, additional) ==
    IF capacity - len >= additional
    THEN capacity
    ELSE Max(capacity * 2, len + additional)

\* A validation that accepts an emptied slot.
Sftp_inner_unchecked == TRUE

\* Sftp::lock / File::lock, first half: the slot must hold the inner value.
Sftp_inner_is_some == sftp = "Some"
File_inner_is_some(t) == file[t] = "Some"

\* A lock that hands out the guard without waiting for the mutex.
Sftp_lock_nowait(t) ==
    /\ th[t].pc = "wait"
    /\ lockHolder' = t /\ lockMode' = blocking

\* Sftp::lock, second half: inner.sess.lock() returns the guard once the
\* mutex is free.
Sftp_lock(t) ==
    /\ th[t].pc = "wait"
    /\ lockHolder = NoThread
    /\ lockHolder' = t /\ lockMode' = blocking

\* File::lock, second half: file_inner.sftp.sess.lock().
File_lock(t) ==
    /\ th[t].pc = "wait"
    /\ lockHolder = NoThread
    /\ lockHolder' = t /\ lockMode' = blocking

\* The start of a path operation of Sftp: util::path2bytes(path)? comes
\* first, then self.lock()? validates the slot and waits for the mutex.
SftpCall(t, o, pathOk, n) ==
    /\ CanCall(t) /\ sftp # "dropped" /\ SftpShared(t)
    /\ opsDone' = opsDone + 1
    /\ shutdownCalls' = IF o = "shutdown" THEN shutdownCalls + 1 ELSE shutdownCalls
    /\ LET r == [Fresh(o) EXCEPT !.pathOk = pathOk, !.stale = (sftp = "None"),
                                 !.need = n, !.nth = shutdownCalls',
                                 !.phase = IF o = "readdir_all" THEN "open" ELSE "none",
                                 !.cap = IF o \in GrowthOps THEN InitialCapacity ELSE 0]
       IN  IF ~pathOk
           THEN Return(t, r, PathErr)
           ELSE IF ~Sftp_inner_is_some
                THEN Return(t, r, Err(LIBSSH2_ERROR_BAD_USE))
                ELSE Set(t, [r EXCEPT !.pc = "wait"])
    /\ UNCHANGED <<lockHolder, lockMode, blocking, sftp, file, inflight, closeReqs,
                   closeCalls, shutdownReqs, filepos, codec>>

\* The start of an operation of File: self.lock()? validates the slot.
FileCall(t, o, n) ==
    /\ CanCall(t) /\ file[t] \in {"Some", "None"}
    /\ opsDone' = opsDone + 1
    /\ closeCalls' = [closeCalls EXCEPT ![t] = IF o = "close" THEN @ + 1 ELSE @]
    /\ LET r == [Fresh(o) EXCEPT !.stale = (file[t] = "None"), !.need = n,
                                 !.nth = closeCalls'[t],
                                 !.cap = IF o \in GrowthOps THEN InitialCapacity ELSE 0]
       IN  IF ~File_inner_is_some(t)
           THEN Return(t, r, Err(LIBSSH2_ERROR_BAD_USE))
           ELSE Set(t, [r EXCEPT !.pc = "wait"])
    /\ UNCHANGED <<lockHolder, lockMode, blocking, sftp, file, inflight, closeReqs,
                   shutdownCalls, shutdownReqs, filepos, codec>>

\* A raw::libssh2_sftp_* call is entered by a thread at position p: the
\* request is now in progress on the session.
Request(t, o, p) ==
    /\ th[t].pc = p /\ th[t].op = o
    /\ inflight' = inflight \cup {t}
    /\ Set(t, [th[t] EXCEPT !.pc = "inflight", !.nreq = Min(@ + 1, MaxReq),
                            !.hreq = 1])

\* The names a directory entry can have, the queried directory, and the
\* lengths of the names: the status of a single-entry read that yields one.
Names == {".", "..", "a", "b"}
Dirname == <<"d">>
NameLength(name) == IF name = ".." THEN 2 ELSE 1
NameLengths == {NameLength(name) : name \in Names}

\* The statuses the peer can give to the request of a call with locals r:
\* for a growth-retry call buffer-too-small while the capacity is short of
\* the answer, for a read or write a count up to the buffer's length, for an
\* open a null handle (0) or a handle (1).
Statuses(r) ==
    CASE r.op \in GrowthOps ->
            PeerErrors
            \cup {IF r.cap < r.need THEN LIBSSH2_ERROR_BUFFER_TOO_SMALL ELSE r.need}
      [] r.op \in {"read", "write"} -> PeerErrors \cup (0..r.need)
      [] r.op = "open_mode" -> {0, 1}
      [] r.op = "readdir_all" /\ r.phase = "open" -> {0, 1}
      [] r.op = "readdir_all" /\ r.phase = "read" ->
            PeerErrors \cup {LIBSSH2_ERROR_FILE, 0}
            \cup (IF Len(r.seen) < MaxEntries THEN NameLengths ELSE {})
      [] OTHER -> PeerErrors \cup {0}

\* The raw call returns: the peer has answered the request with a status
\* (for open_mode: 0 is the null handle, 1 a handle).
raw_return(t) ==
    /\ th[t].pc = "inflight"
    /\ \E s \in Statuses(th[t]) : Set(t, [th[t] EXCEPT !.pc = "answered", !.rc = s])
    /\ inflight' = inflight \ {t}
    /\ UNCHANGED <<opsDone, lockHolder, lockMode, blocking, sftp, file, closeReqs,
                   closeCalls, shutdownCalls, shutdownReqs, filepos, codec>>

\* sess.rc(rc): a negative status is an error, anything else success.
SessRc(rc) == IF rc < 0 THEN Err(rc) ELSE Ok(0)

\* A guard that is not released when it goes out of scope.
MutexGuard_leak(t) == lockHolder' = lockHolder

\* The MutexGuard of a LockedSftp or LockedFile goes out of scope.
MutexGuard_drop(t) == lockHolder' = NoThread

\* A panic that leaves the mutex locked by the thread it unwinds.
MutexGuard_forget(t) == lockHolder' = lockHolder

\* A failed assert_eq! in a destructor unwinds its frame: the guard, the
\* last local declared, is dropped and the mutex is free again.
MutexGuard_unwind(t) == lockHolder' = NoThread

\* ------------------------------------------------------------------ Sftp

\* Sftp::open_mode (open, create and opendir are calls of it): one open
\* request; a null handle is the session's last error, a handle becomes the
\* thread's File, whose slot holds it.
open_mode(t) ==
    \/ /\ file[t] = "absent"
       /\ \E pathOk \in BOOLEAN : SftpCall(t, "open_mode", pathOk, 0)
    \/ /\ Sftp_lock(t)
       /\ Request(t, "open_mode", "wait")
       /\ UNCHANGED <<opsDone, blocking, sftp, file, closeReqs, closeCalls,
                      shutdownCalls, shutdownReqs, filepos, codec>>
    \/ /\ th[t].pc = "answered" /\ th[t].op = "open_mode"
       /\ lockHolder' = NoThread
       /\ IF th[t].rc = 0
          THEN Return(t, th[t], Err(LastError)) /\ UNCHANGED file
          ELSE Return(t, th[t], Ok(1)) /\ file' = [file EXCEPT ![t] = "Some"]
       /\ UNCHANGED <<opsDone, lockMode, blocking, sftp, inflight, closeReqs,
                      closeCalls, shutdownCalls, shutdownReqs, filepos, codec>>

\* Sftp::mkdir, and with it rmdir, unlink, stat, lstat, setstat, symlink and
\* rename, which have its shape: encode the path, lock, one request, sess.rc.
mkdir(t) ==
    \/ \E pathOk \in BOOLEAN : SftpCall(t, "mkdir", pathOk, 0)
    \/ /\ Sftp_lock(t)
       /\ Request(t, "mkdir", "wait")
       /\ UNCHANGED <<opsDone, blocking, sftp, file, closeReqs, closeCalls,
                      shutdownCalls, shutdownReqs, filepos, codec>>
    \/ /\ th[t].pc = "answered" /\ th[t].op = "mkdir"
       /\ lockHolder' = NoThread
       /\ Return(t, th[t], SessRc(th[t].rc))
       /\ UNCHANGED <<opsDone, lockMode, blocking, sftp, file, inflight, closeReqs,
                      closeCalls, shutdownCalls, shutdownReqs, filepos, codec>>

\* Sftp::readlink_op (readlink and realpath): the growth-retry loop, run
\* inside one hold of the mutex.  ret.reserve(cap) is called on a vector of
\* length 0, and the request is issued again.
readlink_op(t) ==
    \/ \E pathOk \in BOOLEAN, n \in Payloads : SftpCall(t, "readlink_op", pathOk, n)
    \/ /\ Sftp_lock(t)
       /\ Request(t, "readlink_op", "wait")
       /\ UNCHANGED <<opsDone, blocking, sftp, file, closeReqs, closeCalls,
                      shutdownCalls, shutdownReqs, filepos, codec>>
    \/ /\ th[t].rc = LIBSSH2_ERROR_BUFFER_TOO_SMALL
       /\ th[t].pc = "answered" /\ th[t].op = "readlink_op"
       /\ inflight' = inflight \cup {t}
       /\ Set(t, [th[t] EXCEPT !.pc = "inflight", !.nreq = Min(@ + 1, MaxReq),
                               !.hreq = Min(@ + 1, MaxReq),
                               !.cap = VecReserve(@, 0, @)])
       /\ UNCHANGED <<opsDone, lockHolder, lockMode, blocking, sftp, file, closeReqs,
                      closeCalls, shutdownCalls, shutdownReqs, filepos, codec>>
    \/ /\ th[t].rc # LIBSSH2_ERROR_BUFFER_TOO_SMALL
       /\ th[t].pc = "answered" /\ th[t].op = "readlink_op"
       /\ lockHolder' = NoThread
       /\ IF th[t].rc < 0
          THEN Return(t, th[t], Err(th[t].rc))
          ELSE Return(t, th[t], Ok(th[t].rc))
       /\ UNCHANGED <<opsDone, lockMode, blocking, sftp, file, inflight, closeReqs,
                      closeCalls, shutdownCalls, shutdownReqs, filepos, codec>>

\* Sftp::shutdown (&mut self): lock, one shutdown request, sess.rc(..)?
\* returns early on an error; only after a success is the slot taken.
shutdown(t) ==
    \/ /\ SftpExclusive(t)
       /\ SftpCall(t, "shutdown", TRUE, 0)
    \/ /\ Sftp_lock(t)
       /\ Request(t, "shutdown", "wait")
       /\ shutdownReqs' = shutdownReqs + 1
       /\ UNCHANGED <<opsDone, blocking, sftp, file, closeReqs, closeCalls,
                      shutdownCalls, filepos, codec>>
    \/ /\ th[t].pc = "answered" /\ th[t].op = "shutdown"
       /\ lockHolder' = NoThread
       /\ Return(t, th[t], SessRc(th[t].rc))
       /\ sftp' = IF th[t].rc < 0 THEN sftp ELSE "None"
       /\ UNCHANGED <<opsDone, lockMode, blocking, file, inflight, closeReqs,
                      closeCalls, shutdownCalls, shutdownReqs, filepos, codec>>

\* impl Drop for Sftp: inner.take(); with an inner value: lock, is_blocking,
\* set_blocking(true), the shutdown request, assert_eq!(.., 0),
\* set_blocking(was_blocking), and the guard is released.  A failed assertion
\* panics and the unwinding releases the guard (in a panic = abort build the
\* process ends there instead: the behaviour that stops before this step).
Drop_Sftp(t) ==
    \/ /\ th[t].pc = "idle" /\ sftp \in {"Some", "None"} /\ SftpExclusive(t)
       /\ sftp' = "dropped"
       /\ IF sftp = "Some"
          THEN Set(t, [Fresh("drop_sftp") EXCEPT !.pc = "wait", !.nth = shutdownCalls])
          ELSE Return(t, [Fresh("drop_sftp") EXCEPT !.stale = TRUE,
                                                    !.nth = shutdownCalls], Ok(0))
       /\ UNCHANGED <<opsDone, lockHolder, lockMode, blocking, file, inflight,
                      closeReqs, closeCalls, shutdownCalls, shutdownReqs,
                      filepos, codec>>
    \/ /\ th[t].pc = "wait" /\ th[t].op = "drop_sftp"
       /\ lockHolder = NoThread
       /\ lockHolder' = t /\ lockMode' = blocking
       /\ Set(t, [th[t] EXCEPT !.pc = "locked"])
       /\ UNCHANGED <<opsDone, blocking, sftp, file, inflight, closeReqs, closeCalls,
                      shutdownCalls, shutdownReqs, filepos, codec>>
    \/ /\ th[t].pc = "locked" /\ th[t].op = "drop_sftp"
       /\ Set(t, [th[t] EXCEPT !.pc = "recorded", !.was_blocking = blocking,
                               !.dsteps = Append(@, "is_blocking")])
       /\ UNCHANGED <<opsDone, lockHolder, lockMode, blocking, sftp, file, inflight,
                      closeReqs, closeCalls, shutdownCalls, shutdownReqs,
                      filepos, codec>>
    \/ /\ th[t].pc = "recorded" /\ th[t].op = "drop_sftp"
       /\ blocking' = TRUE
       /\ Set(t, [th[t] EXCEPT !.pc = "forced", !.dsteps = Append(@, "set_blocking")])
       /\ UNCHANGED <<opsDone, lockHolder, lockMode, sftp, file, inflight, closeReqs,
                      closeCalls, shutdownCalls, shutdownReqs, filepos, codec>>
    \/ /\ th[t].pc = "forced" /\ th[t].op = "drop_sftp"
       /\ inflight' = inflight \cup {t}
       /\ shutdownReqs' = shutdownReqs + 1
       /\ Set(t, [th[t] EXCEPT !.pc = "inflight", !.nreq = Min(@ + 1, MaxReq),
                               !.hreq = 1, !.dsteps = Append(@, "request")])
       /\ UNCHANGED <<opsDone, lockHolder, lockMode, blocking, sftp, file,
                      closeReqs, closeCalls, shutdownCalls, filepos, codec>>
    \/ /\ th[t].pc = "answered" /\ th[t].op = "drop_sftp" /\ th[t].rc = 0
       /\ blocking' = th[t].was_blocking
       /\ lockHolder' = NoThread
       /\ Return(t, [th[t] EXCEPT !.dsteps = Append(@, "restore")], Ok(0))
       /\ UNCHANGED <<opsDone, lockMode, sftp, file, inflight, closeReqs, closeCalls,
                      shutdownCalls, shutdownReqs, filepos, codec>>
    \/ /\ th[t].pc = "answered" /\ th[t].op = "drop_sftp" /\ th[t].rc # 0
       /\ Unwind(t, th[t])
       /\ MutexGuard_unwind(t)
       /\ UNCHANGED <<opsDone, lockMode, blocking, sftp, file, inflight, closeReqs,
                      closeCalls, shutdownCalls, shutdownReqs, filepos, codec>>

\* Path::join of a directory path and a file name, paths as their components.
PathJoin(dir, name) == dir \o <<name>>

\* The test of Sftp::readdir for the entries it leaves out.
IsDotOrDotDot(name) == name = "." \/ name = ".."

\* Sftp::readdir (&self): opendir, then dir.readdir() until it fails, each
\* one a locked call of its own; "." and ".." are skipped, the other names
\* joined onto dirname; an error whose code is LIBSSH2_ERROR_FILE ends the
\* loop, any other is returned.  On every way out dir, still open, is
\* dropped: impl Drop for File runs, with its assert_eq!.
Sftp_readdir(t) ==
    \/ \E pathOk \in BOOLEAN : SftpCall(t, "readdir_all", pathOk, 0)
    \/ /\ th[t].phase = "open"
       /\ Sftp_lock(t)
       /\ Request(t, "readdir_all", "wait")
       /\ UNCHANGED <<opsDone, blocking, sftp, file, closeReqs, closeCalls,
                      shutdownCalls, shutdownReqs, filepos, codec>>
    \/ /\ th[t].pc = "answered" /\ th[t].op = "readdir_all" /\ th[t].phase = "open"
       /\ MutexGuard_drop(t)
       /\ IF th[t].rc = 0
          THEN Return(t, [th[t] EXCEPT !.pending = Err(LastError)], Err(LastError))
          ELSE Set(t, [th[t] EXCEPT !.pc = "wait", !.phase = "read"])
       /\ UNCHANGED <<opsDone, lockMode, blocking, sftp, file, inflight, closeReqs,
                      closeCalls, shutdownCalls, shutdownReqs, filepos, codec>>
    \/ /\ th[t].phase = "read"
       /\ File_lock(t)
       /\ Request(t, "readdir_all", "wait")
       /\ UNCHANGED <<opsDone, blocking, sftp, file, closeReqs, closeCalls,
                      shutdownCalls, shutdownReqs, filepos, codec>>
    \/ /\ th[t].pc = "answered" /\ th[t].op = "readdir_all" /\ th[t].phase = "read"
       /\ MutexGuard_drop(t)
       /\ IF th[t].rc > 0
          THEN \E name \in Names :
                  /\ NameLength(name) = th[t].rc
                  /\ Set(t, [th[t] EXCEPT
                              !.pc = "wait",
                              !.seen = Append(@, name),
                              !.list = IF IsDotOrDotDot(name)
                                       THEN @
                                       ELSE Append(@, PathJoin(Dirname, name))])
          ELSE Set(t, [th[t] EXCEPT
                          !.pc = "wait", !.phase = "close",
                          !.pending = IF th[t].rc = 0 \/ th[t].rc = LIBSSH2_ERROR_FILE
                                      THEN Ok(0)
                                      ELSE Err(th[t].rc)])
       /\ UNCHANGED <<opsDone, lockMode, blocking, sftp, file, inflight, closeReqs,
                      closeCalls, shutdownCalls, shutdownReqs, filepos, codec>>
    \/ /\ th[t].pc = "wait" /\ th[t].op = "readdir_all" /\ th[t].phase = "close"
       /\ lockHolder = NoThread
       /\ lockHolder' = t /\ lockMode' = blocking
       /\ blocking' = TRUE
       /\ inflight' = inflight \cup {t}
       /\ Set(t, [th[t] EXCEPT
                      !.pc = "inflight", !.was_blocking = blocking,
                      !.nreq = Min(@ + 1, MaxReq), !.hreq = 1,
                      !.dsteps = <<"is_blocking", "set_blocking", "request">>])
       /\ UNCHANGED <<opsDone, sftp, file, closeReqs, closeCalls, shutdownCalls,
                      shutdownReqs, filepos, codec>>
    \/ /\ th[t].pc = "answered" /\ th[t].op = "readdir_all" /\ th[t].phase = "close"
       /\ IF th[t].rc = 0
          THEN /\ blocking' = th[t].was_blocking
               /\ MutexGuard_drop(t)
               /\ Return(t, [th[t] EXCEPT !.dsteps = Append(@, "restore")],
                         IF th[t].pending.tag = "Ok"
                         THEN Ok(Len(th[t].list))
                         ELSE th[t].pending)
          ELSE /\ Unwind(t, th[t])
               /\ MutexGuard_unwind(t)
               /\ UNCHANGED blocking
       /\ UNCHANGED <<opsDone, lockMode, sftp, file, inflight, closeReqs, closeCalls,
                      shutdownCalls, shutdownReqs, filepos, codec>>

\* ------------------------------------------------------------------ File

\* A result that takes a count short of the buffer's length as an error.
IoResult_whole(r) == IF r.rc < r.need THEN Err(r.rc) ELSE Ok(r.rc)

\* The result of read and write from the locals r of the call: a negative
\* status is an error, any other status is the byte count, Ok(rc as usize).
IoResult(r) == IF r.rc < 0 THEN Err(r.rc) ELSE Ok(r.rc)

\* <File as Read>::read on a buffer of MaxBuf bytes: lock, one read request.
read(t) ==
    \/ FileCall(t, "read", MaxBuf)
    \/ /\ File_lock(t)
       /\ Request(t, "read", "wait")
       /\ UNCHANGED <<opsDone, blocking, sftp, file, closeReqs, closeCalls,
                      shutdownCalls, shutdownReqs, filepos, codec>>
    \/ /\ th[t].pc = "answered" /\ th[t].op = "read"
       /\ lockHolder' = NoThread
       /\ Return(t, th[t], IoResult(th[t]))
       /\ UNCHANGED <<opsDone, lockMode, blocking, sftp, file, inflight, closeReqs,
                      closeCalls, shutdownCalls, shutdownReqs, filepos, codec>>

\* <File as Write>::write on a buffer of MaxBuf bytes: lock, one write request.
write(t) ==
    \/ FileCall(t, "write", MaxBuf)
    \/ /\ File_lock(t)
       /\ Request(t, "write", "wait")
       /\ UNCHANGED <<opsDone, blocking, sftp, file, closeReqs, closeCalls,
                      shutdownCalls, shutdownReqs, filepos, codec>>
    \/ /\ th[t].pc = "answered" /\ th[t].op = "write"
       /\ lockHolder' = NoThread
       /\ Return(t, th[t], IoResult(th[t]))
       /\ UNCHANGED <<opsDone, lockMode, blocking, sftp, file, inflight, closeReqs,
                      closeCalls, shutdownCalls, shutdownReqs, filepos, codec>>

\* The arguments seek is called with: SeekFrom::Start, Current and End.
SeekArgs == {<<"Start", 1>>, <<"Current", 1>>, <<"End", -1>>}

\* The records the peer can answer a stat of the handle with: without a
\* size, or with one.
StatAnswers ==
    {zeroed, [zeroed EXCEPT !.flags = {"SIZE"}, !.filesize = Word2(0, MaxSize)]}

\* `as i64` of a size or position below 2^32, the ones that occur here.
AsI64(x) == x.lo

\* The error of seek when the stat has no size.
NoSizeErr == [tag |-> "NoSize", val |-> 0]

\* An offset from the end that takes a missing size as 0.
SeekFromEnd_or_zero(st, offset) == Ok(AsI64(unwrap_or(st.size, Zero)) + offset)

\* seek, SeekFrom::End(offset), on the FileStat that self.stat() returned:
\* size + offset, or the error "no file size available".
SeekFromEnd(st, offset) ==
    IF is_some(st.size) THEN Ok(AsI64(st.size[1]) + offset) ELSE NoSizeErr

\* <File as Seek>::seek.  Start(pos): next is pos.  Current(offset): lock,
\* tell64, unlock.  End(offset): self.stat(), a locked call with one request,
\* and from its size the offset, or an error returned.  Then lock,
\* libssh2_sftp_seek64(next), which sets the local file pointer and sends
\* nothing, unlock, Ok(next).
seek(t) ==
    \/ /\ CanCall(t) /\ file[t] \in {"Some", "None"}
       /\ opsDone' = opsDone + 1
       /\ \E a \in SeekArgs :
             LET r == [Fresh("seek") EXCEPT
                          !.stale = (file[t] = "None"), !.nth = closeCalls[t],
                          !.how = a[1], !.offset = a[2], !.pos0 = filepos[t],
                          !.next = IF a[1] = "Start" THEN a[2] ELSE 0,
                          !.phase = CASE a[1] = "Start" -> "seek"
                                      [] a[1] = "Current" -> "tell"
                                      [] a[1] = "End" -> "stat"]
             IN  IF ~File_inner_is_some(t)
                 THEN Return(t, [r EXCEPT !.pending = Err(LIBSSH2_ERROR_BAD_USE)],
                             Err(LIBSSH2_ERROR_BAD_USE))
                 ELSE Set(t, [r EXCEPT !.pc = "wait"])
       /\ UNCHANGED <<lockHolder, lockMode, blocking, sftp, file, inflight, closeReqs,
                      closeCalls, shutdownCalls, shutdownReqs, filepos, codec>>
    \/ /\ th[t].phase = "stat"
       /\ File_lock(t)
       /\ Request(t, "seek", "wait")
       /\ UNCHANGED <<opsDone, blocking, sftp, file, closeReqs, closeCalls,
                      shutdownCalls, shutdownReqs, filepos, codec>>
    \/ /\ th[t].pc = "answered" /\ th[t].op = "seek" /\ th[t].phase = "stat"
       /\ MutexGuard_drop(t)
       /\ IF th[t].rc < 0
          THEN Return(t, [th[t] EXCEPT !.pending = Err(th[t].rc)], Err(th[t].rc))
          ELSE \E attrs \in StatAnswers :
                  LET st == FileStat_from_raw(attrs)
                      res == SeekFromEnd(st, th[t].offset)
                      r == [th[t] EXCEPT !.pending = Ok(0), !.size = st.size]
                  IN  IF res.tag = "Ok"
                      THEN Set(t, [r EXCEPT !.pc = "wait", !.phase = "seek",
                                            !.next = res.val])
                      ELSE Return(t, r, res)
       /\ UNCHANGED <<opsDone, lockMode, blocking, sftp, file, inflight, closeReqs,
                      closeCalls, shutdownCalls, shutdownReqs, filepos, codec>>
    \/ /\ th[t].op = "seek" /\ th[t].phase \in {"tell", "seek"}
       /\ File_lock(t)
       /\ Set(t, [th[t] EXCEPT !.pc = "locked", !.hreq = 0])
       /\ UNCHANGED <<opsDone, blocking, sftp, file, inflight, closeReqs, closeCalls,
                      shutdownCalls, shutdownReqs, filepos, codec>>
    \/ /\ th[t].pc = "locked" /\ th[t].op = "seek" /\ th[t].phase = "tell"
       /\ MutexGuard_drop(t)
       /\ Set(t, [th[t] EXCEPT !.pc = "wait", !.phase = "seek",
                               !.next = filepos[t] + th[t].offset])
       /\ UNCHANGED <<opsDone, lockMode, blocking, sftp, file, inflight, closeReqs,
                      closeCalls, shutdownCalls, shutdownReqs, filepos, codec>>
    \/ /\ th[t].pc = "locked" /\ th[t].op = "seek" /\ th[t].phase = "seek"
       /\ filepos' = [filepos EXCEPT ![t] = th[t].next]
       /\ MutexGuard_drop(t)
       /\ Return(t, [th[t] EXCEPT !.nseek = @ + 1], Ok(th[t].next))
       /\ UNCHANGED <<opsDone, lockMode, blocking, sftp, file, inflight, closeReqs,
                      closeCalls, shutdownCalls, shutdownReqs, codec>>

\* The names an entry of the given length can have: those of Names, or for
\* the lengths of Payloads a long name, all of them alike.
EntryNames(n) ==
    IF n \in NameLengths THEN {name \in Names : NameLength(name) = n} ELSE {"long"}

\* A classification that takes a zero length as an entry with an empty name.
ReaddirResult_empty_entry(rc) == IF rc < 0 THEN Err(rc) ELSE Ok(rc)

\* File::readdir, after its loop, on the final status rc: a negative one is
\* the session's error of that code, zero the error "no more files" with
\* the code LIBSSH2_ERROR_FILE, a positive one the length set on the name.
ReaddirResult(rc) ==
    IF rc < 0
    THEN Err(rc)
    ELSE IF rc = 0 THEN Err(LIBSSH2_ERROR_FILE) ELSE Ok(rc)

\* File::readdir: the growth-retry loop inside one hold of the mutex, then
\* the classification of the final status; an entry is returned with the
\* name the peer gave, whatever it is.
readdir(t) ==
    \/ \E n \in Payloads \cup NameLengths : FileCall(t, "readdir", n)
    \/ /\ File_lock(t)
       /\ Request(t, "readdir", "wait")
       /\ UNCHANGED <<opsDone, blocking, sftp, file, closeReqs, closeCalls,
                      shutdownCalls, shutdownReqs, filepos, codec>>
    \/ /\ th[t].rc = LIBSSH2_ERROR_BUFFER_TOO_SMALL
       /\ th[t].pc = "answered" /\ th[t].op = "readdir"
       /\ inflight' = inflight \cup {t}
       /\ Set(t, [th[t] EXCEPT !.pc = "inflight", !.nreq = Min(@ + 1, MaxReq),
                               !.hreq = Min(@ + 1, MaxReq),
                               !.cap = VecReserve(@, 0, @)])
       /\ UNCHANGED <<opsDone, lockHolder, lockMode, blocking, sftp, file, closeReqs,
                      closeCalls, shutdownCalls, shutdownReqs, filepos, codec>>
    \/ /\ th[t].rc # LIBSSH2_ERROR_BUFFER_TOO_SMALL
       /\ th[t].pc = "answered" /\ th[t].op = "readdir"
       /\ lockHolder' = NoThread
       /\ IF th[t].rc > 0
          THEN \E name \in EntryNames(th[t].rc) :
                  Return(t, [th[t] EXCEPT !.seen = <<name>>], ReaddirResult(th[t].rc))
          ELSE Return(t, th[t], ReaddirResult(th[t].rc))
       /\ UNCHANGED <<opsDone, lockMode, blocking, sftp, file, inflight, closeReqs,
                      closeCalls, shutdownCalls, shutdownReqs, filepos, codec>>

\* A close() that puts the session into blocking mode for its request, as
\* the destructor does, and leaves it there.
close_forcing(t) ==
    \/ FileCall(t, "close", 0)
    \/ /\ File_lock(t)
       /\ Request(t, "close", "wait")
       /\ blocking' = TRUE
       /\ closeReqs' = [closeReqs EXCEPT ![t] = @ + 1]
       /\ UNCHANGED <<opsDone, sftp, file, closeCalls, shutdownCalls,
                      shutdownReqs, filepos, codec>>
    \/ /\ th[t].pc = "answered" /\ th[t].op = "close"
       /\ lockHolder' = NoThread
       /\ Return(t, th[t], SessRc(th[t].rc))
       /\ file' = [file EXCEPT ![t] = IF th[t].rc < 0 THEN @ ELSE "None"]
       /\ UNCHANGED <<opsDone, lockMode, blocking, sftp, inflight, closeReqs,
                      closeCalls, shutdownCalls, shutdownReqs, filepos, codec>>

\* File::close (&mut self): lock, one close request, Error::rc(..)? returns
\* early on an error; only after a success is the slot taken.
close(t) ==
    \/ FileCall(t, "close", 0)
    \/ /\ File_lock(t)
       /\ Request(t, "close", "wait")
       /\ closeReqs' = [closeReqs EXCEPT ![t] = @ + 1]
       /\ UNCHANGED <<opsDone, blocking, sftp, file, closeCalls, shutdownCalls,
                      shutdownReqs, filepos, codec>>
    \/ /\ th[t].pc = "answered" /\ th[t].op = "close"
       /\ lockHolder' = NoThread
       /\ Return(t, th[t], SessRc(th[t].rc))
       /\ file' = [file EXCEPT ![t] = IF th[t].rc < 0 THEN @ ELSE "None"]
       /\ UNCHANGED <<opsDone, lockMode, blocking, sftp, inflight, closeReqs,
                      closeCalls, shutdownCalls, shutdownReqs, filepos, codec>>

\* impl Drop for File: inner.take(); with an inner value: lock, is_blocking,
\* set_blocking(true), the close request, assert_eq!(.., 0),
\* set_blocking(was_blocking), and the guard is released.  A failed assertion
\* panics and the unwinding releases the guard.
Drop_File(t) ==
    \/ /\ th[t].pc = "idle" /\ file[t] \in {"Some", "None"}
       /\ file' = [file EXCEPT ![t] = "dropped"]
       /\ IF file[t] = "Some"
          THEN Set(t, [Fresh("drop_file") EXCEPT !.pc = "wait", !.nth = closeCalls[t]])
          ELSE Return(t, [Fresh("drop_file") EXCEPT !.stale = TRUE,
                                                    !.nth = closeCalls[t]], Ok(0))
       /\ UNCHANGED <<opsDone, lockHolder, lockMode, blocking, sftp, inflight,
                      closeReqs, closeCalls, shutdownCalls, shutdownReqs,
                      filepos, codec>>
    \/ /\ th[t].pc = "wait" /\ th[t].op = "drop_file"
       /\ lockHolder = NoThread
       /\ lockHolder' = t /\ lockMode' = blocking
       /\ Set(t, [th[t] EXCEPT !.pc = "locked"])
       /\ UNCHANGED <<opsDone, blocking, sftp, file, inflight, closeReqs, closeCalls,
                      shutdownCalls, shutdownReqs, filepos, codec>>
    \/ /\ th[t].pc = "locked" /\ th[t].op = "drop_file"
       /\ Set(t, [th[t] EXCEPT !.pc = "recorded", !.was_blocking = blocking,
                               !.dsteps = Append(@, "is_blocking")])
       /\ UNCHANGED <<opsDone, lockHolder, lockMode, blocking, sftp, file, inflight,
                      closeReqs, closeCalls, shutdownCalls, shutdownReqs,
                      filepos, codec>>
    \/ /\ th[t].pc = "recorded" /\ th[t].op = "drop_file"
       /\ blocking' = TRUE
       /\ Set(t, [th[t] EXCEPT !.pc = "forced", !.dsteps = Append(@, "set_blocking")])
       /\ UNCHANGED <<opsDone, lockHolder, lockMode, sftp, file, inflight, closeReqs,
                      closeCalls, shutdownCalls, shutdownReqs, filepos, codec>>
    \/ /\ th[t].pc = "forced" /\ th[t].op = "drop_file"
       /\ inflight' = inflight \cup {t}
       /\ closeReqs' = [closeReqs EXCEPT ![t] = @ + 1]
       /\ Set(t, [th[t] EXCEPT !.pc = "inflight", !.nreq = Min(@ + 1, MaxReq),
                               !.hreq = 1, !.dsteps = Append(@, "request")])
       /\ UNCHANGED <<opsDone, lockHolder, lockMode, blocking, sftp, file,
                      closeCalls, shutdownCalls, shutdownReqs, filepos, codec>>
    \/ /\ th[t].pc = "answered" /\ th[t].op = "drop_file" /\ th[t].rc = 0
       /\ blocking' = th[t].was_blocking
       /\ lockHolder' = NoThread
       /\ Return(t, [th[t] EXCEPT !.dsteps = Append(@, "restore")], Ok(0))
       /\ UNCHANGED <<opsDone, lockMode, sftp, file, inflight, closeReqs, closeCalls,
                      shutdownCalls, shutdownReqs, filepos, codec>>
    \/ /\ th[t].pc = "answered" /\ th[t].op = "drop_file" /\ th[t].rc # 0
       /\ Unwind(t, th[t])
       /\ MutexGuard_unwind(t)
       /\ UNCHANGED <<opsDone, lockMode, blocking, sftp, file, inflight, closeReqs,
                      closeCalls, shutdownCalls, shutdownReqs, filepos, codec>>

\* ------------------------------------------------------- specification
Next ==
    \E t \in Threads :
        \/ open_mode(t)
        \/ mkdir(t)
        \/ readlink_op(t)
        \/ shutdown(t)
        \/ Drop_Sftp(t)
        \/ read(t)
        \/ readdir(t)
        \/ close(t)
        \/ Drop_File(t)
        \/ raw_return(t)

Spec == Init /\ [][Next]_vars

\* The host program that works on its open Files: transfers and seeks.
IoNext ==
    \E t \in Threads :
        \/ open_mode(t)
        \/ read(t)
        \/ write(t)
        \/ seek(t)
        \/ close(t)
        \/ Drop_File(t)
        \/ raw_return(t)

IoSpec == Init /\ [][IoNext]_vars

\* The host program that lists directories: Sftp::readdir next to path
\* operations with one request, with a growth-retry loop, and to seek on an
\* open File.
ListNext ==
    \E t \in Threads :
        \/ Sftp_readdir(t)
        \/ open_mode(t)
        \/ seek(t)
        \/ mkdir(t)
        \/ readlink_op(t)
        \/ raw_return(t)

ListSpec == Init /\ [][ListNext]_vars

\* The host program that uses every operation and both destructors.
FullNext ==
    \E t \in Threads :
        \/ open_mode(t)
        \/ mkdir(t)
        \/ readlink_op(t)
        \/ Sftp_readdir(t)
        \/ shutdown(t)
        \/ Drop_Sftp(t)
        \/ read(t)
        \/ write(t)
        \/ seek(t)
        \/ readdir(t)
        \/ close(t)
        \/ Drop_File(t)
        \/ raw_return(t)

FullSpec == Init /\ [][FullNext]_vars

\* Fairness of the host: a thread inside a call keeps running, the peer
\* answers every request, and the mutex is fair to the threads waiting for it.
ThreadStep(t) ==
    \/ open_mode(t)
    \/ mkdir(t)
    \/ readlink_op(t)
    \/ shutdown(t)
    \/ Drop_Sftp(t)
    \/ read(t)
    \/ readdir(t)
    \/ close(t)
    \/ Drop_File(t)
    \/ raw_return(t)
Progress(t) == Running(t) /\ ThreadStep(t)
Acquire(t) == th[t].pc = "wait" /\ ThreadStep(t)

FairSpec ==
    /\ Init /\ [][Next]_vars
    /\ \A t \in Threads : WF_vars(Progress(t)) /\ SF_vars(Acquire(t))

\* ---------------------------------------- the FileStat conversions alone
\* The number of 32-bit words of c_ulong on the targets the crate builds for.
CULongWords == {1, 2}

progVars == <<th, ret, opsDone, lockHolder, lockMode, blocking, sftp, file, inflight,
              closeReqs, closeCalls, shutdownCalls, shutdownReqs, filepos>>

\* Any FileStat, on any target.
CodecInit ==
    /\ ProgramInit
    /\ codec \in {[CodecOff EXCEPT !.stage = "value", !.words = w, !.v = v] :
                    w \in CULongWords, v \in FileStats}

\* stat.raw(), as setstat calls it.
Encode ==
    /\ codec.stage = "value"
    /\ codec' = [codec EXCEPT !.stage = "encoded",
                              !.raw = FileStat_raw(codec.v, codec.words)]
    /\ UNCHANGED progVars

\* FileStat::from_raw on the record that raw() produced.
Decode ==
    /\ codec.stage = "encoded"
    /\ codec' = [codec EXCEPT !.stage = "decoded", !.back = FileStat_from_raw(codec.raw)]
    /\ UNCHANGED progVars

\* The setstat request carries the record to the peer, which applies it.
RemoteSetstat ==
    /\ codec.stage = "encoded"
    /\ codec' = [codec EXCEPT !.stage = "applied", !.remote = RemoteAfter(codec.raw)]
    /\ UNCHANGED progVars

CodecNext == Encode \/ Decode \/ RemoteSetstat

CodecSpec == CodecInit /\ [][CodecNext]_vars

\* ----------------------------------------------------------------- claims
BadUse == Err(LIBSSH2_ERROR_BAD_USE)

\* The number of doublings of the initial capacity after which n bytes fit.
Doublings(n) ==
    CHOOSE k \in 0..(MaxDoublings + 1) :
        /\ InitialCapacity * (2 ^ k) >= n
        /\ \A j \in 0..(k - 1) : InitialCapacity * (2 ^ j) < n

\* C1: every protocol request in progress on the session was issued by the
\* thread that holds the session mutex, so at most one request is in
\* progress at any time, whatever the threads and handles.
C1_RequestsUnderLock ==
    /\ \A t \in inflight : lockHolder = t
    /\ Cardinality(inflight) <= 1

\* C1, its case: a request is in progress while another thread waits for
\* the mutex.
C1_Contended ==
    \E t \in inflight : \E u \in Threads \ {t} : th[u].pc = "wait"

\* C2: over the lifetime of a File (of the Sftp) the close (shutdown) request
\* of its raw handle is issued exactly once: never twice, and once the
\* handle's drop has ended, not zero times.
C2_ReleasedExactlyOnce ==
    /\ \A t \in Threads : closeReqs[t] <= 1
    /\ shutdownReqs <= 1
    /\ \A t \in Threads :
          (file[t] = "dropped" /\ th[t].op # "drop_file") => closeReqs[t] = 1
    /\ (sftp = "dropped" /\ \A t \in Threads : th[t].op # "drop_sftp")
          => shutdownReqs = 1

\* C3: a destructor that finds its slot occupied performs, in this order,
\* the recording of the blocking mode, set_blocking(true), the release
\* request and the restoring set_blocking; one that finds the slot empty
\* performs none of them.
C3_DropSequence ==
    ret.op \in DropOps =>
        ret.dsteps = IF ret.stale
                     THEN <<>>
                     ELSE <<"is_blocking", "set_blocking", "request", "restore">>

\* C4: when a destructor has released the session lock, by completing or by
\* the failure of its request, the blocking mode is the one the session had
\* when the destructor acquired the lock.
C4_ModeRestoredOnEveryExit ==
    (ret.op \in DropOps /\ ~ret.stale) => blocking = lockMode

\* C5: once close() has returned, with Ok or with Err, the File's slot is
\* empty, and a read or readdir called after a close() fails with invalid-use.
C5_CloseAlwaysClears ==
    /\ ret.op = "close" => file[ret.t] = "None"
    /\ (ret.op \in {"read", "readdir"} /\ ret.nth >= 1) => ret.result = BadUse

\* C6: once shutdown() has returned, with Ok or with Err, the Sftp's slot is
\* empty, a later call with an encodable path fails with invalid-use, and
\* neither a second shutdown() nor the drop issues the shutdown request.
C6_ShutdownAlwaysClears ==
    /\ ret.op = "shutdown" => sftp = "None"
    /\ (ret.op \in {"open_mode", "mkdir", "readlink_op"} /\ ret.nth >= 1 /\ ret.pathOk)
          => ret.result = BadUse
    /\ (ret.op = "shutdown" /\ ret.nth >= 2) => ret.nreq = 0
    /\ (ret.op = "drop_sftp" /\ ret.nth >= 1) => ret.nreq = 0

\* C7: the second close() of a File, whatever the status of the first close
\* request, returns invalid-use and issues no request.
C7_SecondCloseIsInvalidUse ==
    (ret.op = "close" /\ ret.nth >= 2) => (ret.result = BadUse /\ ret.nreq = 0)

\* C8, as claimed: a call on a handle whose slot is empty fails with
\* invalid-use whatever its path argument, and issues no request.
C8_InvalidUseWhateverThePath ==
    (ret.stale /\ ret.op \notin DropOps) => (ret.result = BadUse /\ ret.nreq = 0)

\* C8, amended: a call on a handle whose slot is empty issues no request and
\* does not take the session lock; it fails with invalid-use, unless it is
\* a path operation whose path does not encode: the path is encoded before
\* the handle is validated, and the call fails with the encoding error.
C8_InvalidUseAfterPathEncoding ==
    /\ (ret.stale /\ ret.op \notin DropOps) =>
          /\ ret.nreq = 0
          /\ lockHolder # ret.t
          /\ ret.result = IF ret.pathOk THEN BadUse ELSE PathErr
    /\ \A t \in Threads : Running(t) => ~th[t].stale

\* C8, its case: a path operation with a path that does not encode, called
\* on an Sftp that was shut down.
C8_StaleCallWithBadPath ==
    ret.stale /\ ret.op \in {"mkdir", "readlink_op"} /\ ~ret.pathOk

\* C9: with a peer that answers buffer-too-small until the capacity has
\* been doubled k times and then answers the length n, a readlink, realpath
\* or readdir issues at most k + 1 requests while it runs, and returns n
\* after exactly k + 1 requests.
C9_GrowthRetryTerminates ==
    /\ \A t \in Threads :
          th[t].op \in GrowthOps => th[t].nreq <= Doublings(th[t].need) + 1
    /\ (ret.op \in GrowthOps /\ ret.result.tag = "Ok") =>
          (ret.nreq = Doublings(ret.need) + 1 /\ ret.result.val = ret.need)

\* C10: under a fair mutex and a peer that answers every request, a thread
\* that waits for the session lock eventually holds it.
C10_NoStarvation ==
    \A t \in Threads : (th[t].pc = "wait") ~> (lockHolder = t)

\* C11: every call of a public fallible operation, Sftp::readdir included,
\* ends by returning a value, whatever the statuses of the peer: no call
\* other than a drop made by the caller ends in a panic.
C11_AlwaysReturnsValue ==
    ret.op \notin DropOps => ret.result.tag # "Panic"

\* The list Sftp::readdir is to return for the names its reads yielded.
RECURSIVE Listing(_)
Listing(names) ==
    IF names = <<>>
    THEN <<>>
    ELSE IF IsDotOrDotDot(Head(names))
         THEN Listing(Tail(names))
         ELSE <<PathJoin(Dirname, Head(names))>> \o Listing(Tail(names))

\* C12: a Sftp::readdir whose reads yielded a finite sequence of entries
\* and then the end of the listing returns Ok with the entries other than
\* "." and "..", in the order read, each joined onto the directory path.
C12_ListingReturned ==
    (ret.op = "readdir_all" /\ ret.phase = "close" /\ ret.pending.tag = "Ok") =>
        /\ ret.result = Ok(Len(Listing(ret.seen)))
        /\ ret.list = Listing(ret.seen)

\* C13: a Sftp::readdir whose open failed, or one of whose reads failed with
\* a code other than the end-of-listing code, returns that error; the
\* end-of-listing code itself is never the error of a Sftp::readdir.
C13_OtherErrorsReturned ==
    /\ (ret.op = "readdir_all" /\ ret.pending.tag = "Err") => ret.result = ret.pending
    /\ (ret.op = "readdir_all" /\ ret.result.tag = "Err") =>
          ret.result.val # LIBSSH2_ERROR_FILE

\* The members of each pair of fields that share a flag bit are both present
\* or both absent.
Paired(v) ==
    /\ is_some(v.uid) = is_some(v.gid)
    /\ is_some(v.atime) = is_some(v.mtime)

\* The timestamps fit the target's c_ulong.
Fits(v, words) ==
    \A X \in {"atime", "mtime"} :
        AsCULong(unwrap_or(v[X], Zero), words) = unwrap_or(v[X], Zero)

\* C14, as claimed: for every FileStat v, with any subset of its fields
\* present, from_raw(v.raw()) = v.
C14_RoundTrip ==
    codec.stage = "decoded" => codec.back = codec.v

\* C14, amended: from_raw(v.raw()) = v exactly when the two members of each
\* pair sharing a flag bit (uid and gid, atime and mtime) are both present or
\* both absent in v and the timestamps fit the target's c_ulong; otherwise
\* the result differs from v.
C14_RoundTripWhenPairedAndFitting ==
    codec.stage = "decoded" =>
        ((codec.back = codec.v) <=> (Paired(codec.v) /\ Fits(codec.v, codec.words)))

\* C14, its case: a FileStat with some fields present and some absent, its
\* pairs whole, has been encoded and decoded.
C14_PartialStatDecoded ==
    /\ codec.stage = "decoded"
    /\ Paired(codec.v) /\ Fits(codec.v, codec.words)
    /\ \E X, Y \in Fields : codec.v[X] = None /\ is_some(codec.v[Y])
    /\ is_some(codec.v.uid)

\* The ordered pairs of fields that share a flag bit.
FlagPairs ==
    {<<"uid", "gid">>, <<"gid", "uid">>, <<"atime", "mtime">>, <<"mtime", "atime">>}

\* C15: when exactly one member of a pair sharing a flag bit is present, the
\* raw record has the shared flag set and the absent member's storage zero,
\* and the decoded FileStat has both members present, the absent one as 0.
C15_FlagPairing ==
    \A p \in FlagPairs :
        (is_some(codec.v[p[1]]) /\ ~is_some(codec.v[p[2]])) =>
            /\ codec.stage \in {"encoded", "decoded", "applied"} =>
                  /\ FlagOf(p[1]) \in codec.raw.flags
                  /\ FlagOf(p[2]) \in codec.raw.flags
                  /\ codec.raw[StorageOf(p[2])] = Zero
            /\ codec.stage = "decoded" =>
                  /\ is_some(codec.back[p[1]])
                  /\ codec.back[p[2]] = Some(Zero)

\* C15, its case: a FileStat with uid present and gid absent has been
\* encoded and decoded.
C15_UidOnlyDecoded ==
    /\ codec.stage = "decoded"
    /\ is_some(codec.v.uid) /\ ~is_some(codec.v.gid)

\* C16: for each field X absent from a FileStat, the raw record has X's flag
\* bit clear and X's storage zero, the peer of a setstat leaves X as it was,
\* and from_raw surfaces a field only when its flag bit is set.
C16_AbsentFieldsUntouched ==
    /\ codec.stage \in {"encoded", "decoded", "applied"} =>
          \A X \in Fields :
              ~is_some(codec.v[X]) =>
                  /\ FlagOf(X) \notin codec.raw.flags
                  /\ codec.raw[StorageOf(X)] = Zero
    /\ codec.stage = "applied" =>
          \A X \in Fields :
              ~is_some(codec.v[X]) => codec.remote[X] = RemoteBefore[X]
    /\ codec.stage = "decoded" =>
          \A X \in Fields :
              is_some(codec.back[X]) => FlagOf(X) \in codec.raw.flags

\* C17: a seek(End(offset)) whose stat failed, or whose stat had no size,
\* returns an error, has called no seek64, and leaves the file pointer where
\* it was; only with a size does it go on to the seek.
C17_SeekEndWithoutSize ==
    /\ (ret.op = "seek" /\ ret.how = "End"
          /\ (ret.pending.tag = "Err" \/ ~is_some(ret.size))) =>
          /\ ret.result.tag \in {"Err", "NoSize"}
          /\ ret.nseek = 0
          /\ filepos[ret.t] = ret.pos0
    /\ \A t \in Threads :
          (th[t].op = "seek" /\ th[t].how = "End" /\ th[t].phase = "seek") =>
              is_some(th[t].size)

\* C17, its case: a seek from the end, on a File whose pointer an earlier
\* seek had moved, got a stat answer without a size.
C17_StatWithoutSize ==
    /\ ret.op = "seek" /\ ret.how = "End"
    /\ ret.pending.tag = "Ok" /\ ~is_some(ret.size)
    /\ ret.pos0 > 0

\* C18: a read or write on an open File issues exactly one request; with a
\* count c >= 0, also one short of the buffer's length, it returns Ok(c),
\* and it returns an error exactly when the status is negative.
C18_PartialTransfer ==
    /\ \A t \in Threads : th[t].op \in {"read", "write"} => th[t].nreq <= 1
    /\ (ret.op \in {"read", "write"} /\ ~ret.stale) =>
          /\ ret.nreq = 1
          /\ ret.rc >= 0 => ret.result = Ok(ret.rc)
          /\ ret.rc < 0 => ret.result = Err(ret.rc)

\* C18, its case: a write returned a count short of the buffer's length.
C18_ShortWrite ==
    /\ ret.op = "write" /\ ret.result.tag = "Ok"
    /\ 0 < ret.result.val /\ ret.result.val < ret.need

\* C19: in a growth-retry call the first request offers the initial
\* capacity, a request is issued again only after buffer-too-small and then
\* with twice the capacity of the one before, and after any other status no
\* further request is issued.
C19_CapacityDoubles ==
    [][\A t \in Threads :
          /\ (th[t].pc = "wait" /\ th'[t].pc = "inflight" /\ th'[t].op \in GrowthOps) =>
                th'[t].cap = InitialCapacity
          /\ (th[t].pc = "answered" /\ th[t].op \in GrowthOps
                /\ th'[t].pc = "inflight") =>
                /\ th[t].rc = LIBSSH2_ERROR_BUFFER_TOO_SMALL
                /\ th'[t].cap = 2 * th[t].cap]_vars

C21_ReaddirClassifies ==
    (ret.op = "readdir" /\ ~ret.stale) =>
        /\ ret.rc = 0 => (ret.result = Err(LIBSSH2_ERROR_FILE) /\ ret.seen = <<>>)
        /\ ret.rc < 0 => (ret.result = Err(ret.rc) /\ ret.seen = <<>>)
        /\ ret.rc > 0 =>
              /\ ret.result = Ok(ret.rc)
              /\ Len(ret.seen) = 1
              /\ ret.seen[1] \in Names => NameLength(ret.seen[1]) = ret.rc
        /\ ret.rc # LIBSSH2_ERROR_BUFFER_TOO_SMALL

\* C21, its case: a File::readdir returned the entry "..".
C21_DotDotReturned ==
    ret.op = "readdir" /\ ret.result.tag = "Ok" /\ ret.seen = <<"..">>

\* C22: no request on a File's raw handle, the close of its destructor
\* included, is issued once the shutdown request of the subsystem has been
\* issued; the shutdown request is issued only when no File is open.
C22_NoFileRequestAfterShutdown ==
    /\ \A t \in inflight : th[t].op \in FileOps => shutdownReqs = 0
    /\ \A t \in inflight :
          th[t].op \in {"shutdown", "drop_sftp"} => \A u \in Threads : file[u] # "Some"

\* C23: the session mutex never deadlocks.  A thread that waits for the lock
\* does not hold it; a thread that has returned from a call, by a value, an
\* error or a failed assertion, holds it no longer, nor does a thread outside
\* every call; and while a thread waits for the lock some step of the
\* program or an answer of the peer is possible.
C23_NoDeadlock ==
    /\ \A t \in Threads : th[t].pc = "wait" => lockHolder # t
    /\ ret.t # NoThread => lockHolder # ret.t
    /\ \A t \in Threads : ~Running(t) => lockHolder # t
    /\ (\E t \in Threads : th[t].pc = "wait") => ENABLED FullNext

\* C23 witness: a destructor's assertion has just failed, the lock is free
\* and another thread is waiting for it.
C23_WaiterAfterPanic ==
    /\ ret.result = Panic /\ lockHolder = NoThread
    /\ \E u \in Threads \ {ret.t} : th[u].pc = "wait"
\* A destructor is between its set_blocking(true) and its restoring
\* set_blocking(was_blocking), or has been cut short there by its assertion.
InToggle(t) ==
    \/ th[t].op \in DropOps /\ th[t].pc \in {"forced", "inflight", "answered"}
    \/ th[t].pc = "panicked"

\* C24: only a destructor of File or of Sftp changes the session's blocking
\* mode, by its set_blocking(true) or by its restoring set_blocking; a
\* request of any other operation, close() and shutdown() included, is
\* issued without a change of the mode; and whenever no destructor is inside
\* its toggle and none has failed there, the mode is the one the caller set
\* before the first operation.
C24_ModeChangedOnlyInDestructors ==
    /\ [][blocking' # blocking =>
              \E t \in Threads : /\ th[t].op \in DropOps
                                 /\ th[t].pc \in {"recorded", "answered"}
                                 /\ th'[t] # th[t]]_vars
    /\ [][\A t \in inflight' \ inflight :
              th'[t].op \notin DropOps => blocking' = blocking]_vars
    /\ \A b \in BOOLEAN :
          (blocking = b) => []((\A t \in Threads : ~InToggle(t)) => blocking = b)

\* C24 witness: after a destructor has toggled the mode and restored it, the
\* request of a close() or a shutdown() is in progress in non-blocking mode.
C24_RequestInNonBlockingMode ==
    /\ ~blocking
    /\ \E t \in inflight : th[t].op \in {"close", "shutdown"}
    /\ \E u \in Threads : /\ file[u] = "dropped" /\ th[u].pc = "idle"
                           /\ closeCalls[u] = 0 /\ closeReqs[u] > 0
====
